---- MODULE Spec2Model ----
(***************************************************************************)
(* Authorship ranges of the HedgeDoc editor                                *)
(* (authorship-layers-extensions.ts).                                      *)
(*                                                                         *)
(* The state field authorshipsStateField holds a CodeMirror DecorationSet  *)
(* of mark decorations, each tagged with the user id that authored the     *)
(* marked text.  Every transaction of the editor runs the field's update   *)
(* function: the set is first mapped through the document changes of the   *)
(* transaction and then every authorshipsUpdateEffect of the transaction   *)
(* is integrated, one after another.                                       *)
(*                                                                         *)
(* The library calls the update function makes are modelled by what they   *)
(* do to a set of mark decorations:                                        *)
(*   RangeSet.map      start mapped with assoc > 0, end with assoc < 0,    *)
(*                     ranges that become empty are dropped;               *)
(*   RangeSet.update   filter is called for the ranges with                *)
(*                     to >= filterFrom and from <= filterTo; add must be  *)
(*                     sorted by from, else an Error is thrown;            *)
(*   Decoration.mark(..).range(from, to)                                   *)
(*                     throws a RangeError unless from < to.               *)
(* An exception leaves update() without a value: the transaction is not    *)
(* applied and the editor keeps its old state.                             *)
(***************************************************************************)
EXTENDS Integers, Sequences, FiniteSets

(* ---------------------------------------------------------------- bounds *)

\* longest document considered
MaxDocLen == 3
\* largest number of decorations a set may hold
MaxRanges == 3
\* longest text one change inserts
MaxInsert == 1
\* largest number of authorship effects one transaction carries
MaxEffects == 2

\* user ids, in the order used to list ranges with equal from and to
UserIds == <<"alice", "bob">>

Users == {UserIds[i] : i \in 1..Len(UserIds)}

UserRank(userId) == CHOOSE i \in 1..Len(UserIds) : UserIds[i] = userId

VARIABLES
    authorshipDecorations,  \* value of authorshipsStateField: sequence of ranges
    docLength,              \* length of the document the positions refer to
    previousDecorations,    \* value of the field before the last transaction
    transaction,            \* the last transaction dispatched
    threw                   \* TRUE iff update() threw for the last transaction

vars == <<authorshipDecorations, docLength, previousDecorations, transaction, threw>>

(* ---------------------------------------------------------------- ranges *)

\* Range<Decoration> of a mark decoration with attribute data-user-id
MarkRange(from, to, userId) == [from |-> from, to |-> to, userId |-> userId]

\* Order in which the ranges of a set are listed: by from (as RangeSet keeps
\* them), ranges with the same from by to and user id.
RangeBefore(r1, r2) ==
    \/ r1.from < r2.from
    \/ r1.from = r2.from /\ r1.to < r2.to
    \/ r1.from = r2.from /\ r1.to = r2.to /\ UserRank(r1.userId) <= UserRank(r2.userId)

RECURSIVE InsertRange(_, _)
InsertRange(r, set) ==
    IF set = <<>> THEN <<r>>
    ELSE IF RangeBefore(r, Head(set)) THEN <<r>> \o set
    ELSE <<Head(set)>> \o InsertRange(r, Tail(set))

RECURSIVE AddRanges(_, _)
AddRanges(set, add) ==
    IF add = <<>> THEN set
    ELSE AddRanges(InsertRange(Head(add), set), Tail(add))

\* createMark as it would be if the library accepted any range
CreateMarkUnchecked(from, to, userId) ==
    [threw |-> FALSE, range |-> MarkRange(from, to, userId)]

\* Decoration.mark({...}).range(from, to): RangeError "Mark decorations may
\* not be empty" when from >= to.
CreateMark(from, to, userId) ==
    [threw |-> from >= to, range |-> MarkRange(from, to, userId)]

(* --------------------------------------------------------------- changes *)

\* A change set replacing [from, to) by insert characters.
NoChange == [from |-> 0, to |-> 0, insert |-> 0]

\* ChangeDesc.mapPos(pos, assoc)
MapPos(changes, pos, assoc) ==
    IF pos < changes.from THEN pos
    ELSE IF \/ pos < changes.to
            \/ pos = changes.to /\ assoc < 0 /\ changes.from = changes.to
         THEN (IF pos = changes.from \/ assoc < 0
               THEN changes.from
               ELSE changes.from + changes.insert)
    ELSE changes.from + changes.insert + (pos - changes.to)

\* ChangeSet.newLength
NewLength(changes, length) == length - (changes.to - changes.from) + changes.insert

\* map as it would be if only inverted ranges were dropped
RECURSIVE MapDecorationsKeepEmpty(_, _)
MapDecorationsKeepEmpty(set, changes) ==
    IF set = <<>> THEN <<>>
    ELSE LET r       == Head(set)
             newFrom == MapPos(changes, r.from, 1)
             newTo   == MapPos(changes, r.to, -1)
             rest    == MapDecorationsKeepEmpty(Tail(set), changes)
         IN  IF newFrom > newTo THEN rest
             ELSE InsertRange(MarkRange(newFrom, newTo, r.userId), rest)

\* DecorationSet.map(changes) for non-inclusive marks
RECURSIVE MapDecorations(_, _)
MapDecorations(set, changes) ==
    IF set = <<>> THEN <<>>
    ELSE LET r       == Head(set)
             newFrom == MapPos(changes, r.from, 1)
             newTo   == MapPos(changes, r.to, -1)
             rest    == MapDecorations(Tail(set), changes)
         IN  IF newFrom >= newTo THEN rest
             ELSE InsertRange(MarkRange(newFrom, newTo, r.userId), rest)

(* --------------------------------------------------------------- effects *)

\* StateEffect<AuthorshipUpdate>
AuthorshipUpdate(from, to, userId) ==
    [is |-> "authorshipsUpdateEffect", from |-> from, to |-> to, userId |-> userId]

\* an effect of another type
OtherEffect == [is |-> "other", from |-> 0, to |-> 0, userId |-> "alice"]

\* authorshipsUpdateEffect.map(value, change): mapPos with its default assoc
MapEffect(value, change) ==
    [value EXCEPT !.from = MapPos(change, value.from, -1),
                  !.to   = MapPos(change, value.to, -1)]

\* transaction.effects.filter((effect) => effect.is(authorshipsUpdateEffect))
RECURSIVE FilterEffects(_)
FilterEffects(effects) ==
    IF effects = <<>> THEN <<>>
    ELSE IF Head(effects).is = "authorshipsUpdateEffect"
         THEN <<Head(effects)>> \o FilterEffects(Tail(effects))
         ELSE FilterEffects(Tail(effects))

\* the filter callback as it would be if it returned false for a decoration
\* at the beginning or the end of the effect
FilterDecorationDropTouching(decoration, effect) ==
    LET inOwnText == decoration.userId = effect.userId
        left   == CreateMark(decoration.from, effect.from, decoration.userId)
        middle == CreateMark(effect.from, effect.to, effect.userId)
        right  == CreateMark(effect.to, decoration.to, decoration.userId)
    IN  IF decoration.from = effect.to \/ decoration.to = effect.from
        THEN [keep |-> FALSE, pushed |-> <<>>, threw |-> FALSE]
        ELSE IF inOwnText
        THEN [keep |-> TRUE, pushed |-> <<>>, threw |-> FALSE]
        ELSE IF decoration.from = effect.from \/ decoration.to = effect.to
        THEN [keep |-> TRUE, pushed |-> <<>>, threw |-> FALSE]
        ELSE [keep |-> FALSE,
              pushed |-> <<left.range, middle.range, right.range>>,
              threw |-> left.threw \/ middle.threw \/ right.threw]

\* the filter callback as it would be if a decoration that shares a boundary
\* with the effect were replaced by the effect
FilterDecorationReplaceSameBoundary(decoration, effect) ==
    LET inOwnText == decoration.userId = effect.userId
        left   == CreateMark(decoration.from, effect.from, decoration.userId)
        middle == CreateMark(effect.from, effect.to, effect.userId)
        right  == CreateMark(effect.to, decoration.to, decoration.userId)
    IN  IF decoration.from = effect.to \/ decoration.to = effect.from
        THEN [keep |-> TRUE, pushed |-> <<>>, threw |-> FALSE]
        ELSE IF inOwnText
        THEN [keep |-> TRUE, pushed |-> <<>>, threw |-> FALSE]
        ELSE IF decoration.from = effect.from \/ decoration.to = effect.to
        THEN [keep |-> FALSE, pushed |-> <<>>, threw |-> FALSE]
        ELSE [keep |-> FALSE,
              pushed |-> <<left.range, middle.range, right.range>>,
              threw |-> left.threw \/ middle.threw \/ right.threw]

\* the filter callback as it would be if the split forgot the text behind
\* the effect
FilterDecorationNoRightRemainder(decoration, effect) ==
    LET inOwnText == decoration.userId = effect.userId
        left   == CreateMark(decoration.from, effect.from, decoration.userId)
        middle == CreateMark(effect.from, effect.to, effect.userId)
    IN  IF decoration.from = effect.to \/ decoration.to = effect.from
        THEN [keep |-> TRUE, pushed |-> <<>>, threw |-> FALSE]
        ELSE IF inOwnText
        THEN [keep |-> TRUE, pushed |-> <<>>, threw |-> FALSE]
        ELSE IF decoration.from = effect.from \/ decoration.to = effect.to
        THEN [keep |-> TRUE, pushed |-> <<>>, threw |-> FALSE]
        ELSE [keep |-> FALSE,
              pushed |-> <<left.range, middle.range>>,
              threw |-> left.threw \/ middle.threw]

\* The filter callback for one decoration: keep tells whether the decoration
\* stays, pushed is what it appends to addedDecorations, threw whether one of
\* its createMark calls threw.
FilterDecoration(decoration, effect) ==
    LET decorationFrom == decoration.from
        decorationTo   == decoration.to
        decorationUserId == decoration.userId
        effectFrom == effect.from
        effectTo   == effect.to
        effectUserId == effect.userId
        inOwnText  == decorationUserId = effectUserId
        left   == CreateMark(decorationFrom, effectFrom, decorationUserId)
        middle == CreateMark(effectFrom, effectTo, effectUserId)
        right  == CreateMark(effectTo, decorationTo, decorationUserId)
    IN  IF decorationFrom = effectTo \/ decorationTo = effectFrom
        THEN [keep |-> TRUE, pushed |-> <<>>, threw |-> FALSE]
        ELSE IF inOwnText
        THEN [keep |-> TRUE, pushed |-> <<>>, threw |-> FALSE]
        ELSE IF decorationFrom = effectFrom \/ decorationTo = effectTo
        THEN [keep |-> TRUE, pushed |-> <<>>, threw |-> FALSE]
        ELSE [keep |-> FALSE,
              pushed |-> <<left.range, middle.range, right.range>>,
              threw |-> left.threw \/ middle.threw \/ right.threw]

\* update({filter}) as it would be without filterFrom and filterTo: the
\* callback runs for every range
RECURSIVE UpdateFilterVisitAll(_, _)
UpdateFilterVisitAll(set, effect) ==
    IF set = <<>> THEN [value |-> <<>>, addedDecorations |-> <<>>, threw |-> FALSE]
    ELSE LET cur  == Head(set)
             f    == FilterDecoration(cur, effect)
             rest == UpdateFilterVisitAll(Tail(set), effect)
         IN  IF f.threw
             THEN [value |-> <<>>, addedDecorations |-> <<>>, threw |-> TRUE]
             ELSE [value |-> IF f.keep THEN <<cur>> \o rest.value ELSE rest.value,
                   addedDecorations |-> f.pushed \o rest.addedDecorations,
                   threw |-> rest.threw]

\* RangeSet.update({filter, filterFrom, filterTo}): the callback runs for the
\* ranges that reach into [filterFrom, filterTo], ends included.
RECURSIVE UpdateFilter(_, _)
UpdateFilter(set, effect) ==
    IF set = <<>> THEN [value |-> <<>>, addedDecorations |-> <<>>, threw |-> FALSE]
    ELSE LET cur  == Head(set)
             skip == effect.from > cur.to \/ effect.to < cur.from
             f    == FilterDecoration(cur, effect)
             rest == UpdateFilter(Tail(set), effect)
         IN  IF skip
             THEN [rest EXCEPT !.value = <<cur>> \o @]
             ELSE IF f.threw
             THEN [value |-> <<>>, addedDecorations |-> <<>>, threw |-> TRUE]
             ELSE [value |-> IF f.keep THEN <<cur>> \o rest.value ELSE rest.value,
                   addedDecorations |-> f.pushed \o rest.addedDecorations,
                   threw |-> rest.threw]

\* add is sorted by from, as RangeSet.update requires when sort is not set
SortedByFrom(add) == \A i \in 1..(Len(add) - 1) : add[i].from <= add[i + 1].from

\* RangeSet.update({add}): Error "Ranges must be added sorted by `from`
\* position and `startSide`" when add is not sorted.
UpdateAdd(set, add) ==
    [threw |-> ~SortedByFrom(add), value |-> AddRanges(set, add)]

\* the body of effects.forEach as it would be if the effect were added on an
\* empty decoration set only
ApplyEffectOnEmptySetOnly(set, effect) ==
    LET filtered == UpdateFilter(set, effect)
        own      == CreateMark(effect.from, effect.to, effect.userId)
        addOwn   == Len(filtered.addedDecorations) = 0 /\ Len(set) = 0
        addedDecorations ==
            IF addOwn THEN <<own.range>> ELSE filtered.addedDecorations
        added    == UpdateAdd(filtered.value, addedDecorations)
    IN  IF filtered.threw THEN [threw |-> TRUE, value |-> set]
        ELSE IF addOwn /\ own.threw THEN [threw |-> TRUE, value |-> set]
        ELSE IF added.threw THEN [threw |-> TRUE, value |-> set]
        ELSE [threw |-> FALSE, value |-> added.value]

\* The body of effects.forEach for one effect.
ApplyEffect(set, effect) ==
    LET filtered == UpdateFilter(set, effect)
        own      == CreateMark(effect.from, effect.to, effect.userId)
        addedDecorations ==
            IF Len(filtered.addedDecorations) = 0
            THEN <<own.range>>
            ELSE filtered.addedDecorations
        added    == UpdateAdd(filtered.value, addedDecorations)
    IN  IF filtered.threw THEN [threw |-> TRUE, value |-> set]
        ELSE IF Len(filtered.addedDecorations) = 0 /\ own.threw
        THEN [threw |-> TRUE, value |-> set]
        ELSE IF added.threw THEN [threw |-> TRUE, value |-> set]
        ELSE [threw |-> FALSE, value |-> added.value]

\* effects.forEach as it would be if it went through the effects from the
\* last to the first
RECURSIVE ApplyEffectsLastFirst(_, _)
ApplyEffectsLastFirst(set, effects) ==
    IF effects = <<>> THEN [threw |-> FALSE, value |-> set]
    ELSE LET last == ApplyEffect(set, effects[Len(effects)])
         IN  IF last.threw THEN last
             ELSE ApplyEffectsLastFirst(last.value, SubSeq(effects, 1, Len(effects) - 1))

\* effects.forEach(...)
RECURSIVE ApplyEffects(_, _)
ApplyEffects(set, effects) ==
    IF effects = <<>> THEN [threw |-> FALSE, value |-> set]
    ELSE LET first == ApplyEffect(set, Head(effects))
         IN  IF first.threw THEN first
             ELSE ApplyEffects(first.value, Tail(effects))

\* update as it would be if the set were not mapped through the changes
UpdateWithoutMap(set, tr) ==
    LET effects == FilterEffects(tr.effects)
    IN  IF Len(effects) = 0 THEN [threw |-> FALSE, value |-> set]
        ELSE ApplyEffects(set, effects)

\* authorshipsStateField.update(authorshipDecorations, transaction)
Update(set, tr) ==
    LET mapped  == MapDecorations(set, tr.changes)
        effects == FilterEffects(tr.effects)
    IN  IF Len(effects) = 0 THEN [threw |-> FALSE, value |-> mapped]
        ELSE ApplyEffects(mapped, effects)

(* ----------------------------------------------------------- transitions *)

\* no transaction is being dispatched
NoTransaction == [changes |-> NoChange, effects |-> <<>>]

\* authorshipsStateField.create(): Decoration.none
Init ==
    /\ authorshipDecorations = <<>>
    /\ docLength \in 0..MaxDocLen
    /\ previousDecorations = <<>>
    /\ transaction = NoTransaction
    /\ threw = FALSE

\* change sets of a document of the given length
Changes(length) ==
    {[from |-> a, to |-> b, insert |-> n] :
        a \in 0..length, b \in 0..length, n \in 0..MaxInsert}

ValidChange(changes, length) ==
    /\ changes.from <= changes.to
    /\ NewLength(changes, length) <= MaxDocLen

\* authorship effects with positions inside a document of the given length
Claims(length) ==
    {AuthorshipUpdate(from, to, userId) :
        from \in 0..length, to \in 0..length, userId \in Users}

\* The editor computes the state of a transaction: the field is updated, or
\* update() throws and the state stays what it was.
Dispatch(tr) ==
    LET result == Update(authorshipDecorations, tr)
    IN  /\ transaction = NoTransaction
        /\ Len(result.value) <= MaxRanges
        /\ previousDecorations' = authorshipDecorations
        /\ transaction' = tr
        /\ threw' = result.threw
        /\ IF result.threw
           THEN UNCHANGED <<authorshipDecorations, docLength>>
           ELSE /\ authorshipDecorations' = result.value
                /\ docLength' = NewLength(tr.changes, docLength)

\* a transaction that changes the document and carries no authorship effect
ApplyDocumentChange ==
    /\ transaction = NoTransaction
    /\ \E changes \in Changes(docLength), other \in BOOLEAN :
        /\ ValidChange(changes, docLength)
        /\ Dispatch([changes |-> changes,
                     effects |-> IF other THEN <<OtherEffect>> ELSE <<>>])

\* a transaction that carries one authorship effect and no document change
ApplyOwnershipClaim ==
    /\ transaction = NoTransaction
    /\ \E effect \in Claims(docLength) :
        Dispatch([changes |-> NoChange, effects |-> <<effect>>])

\* The dispatch is over: the transaction is dropped and the next one starts
\* from the value the field has now.
EndTransaction ==
    /\ transaction # NoTransaction
    /\ transaction' = NoTransaction
    /\ previousDecorations' = authorshipDecorations
    /\ threw' = FALSE
    /\ UNCHANGED <<authorshipDecorations, docLength>>

Next ==
    \/ ApplyDocumentChange
    \/ ApplyOwnershipClaim
    \/ EndTransaction

Spec == Init /\ [][Next]_vars

(* ------------------------------------- transactions of changes and effects *)

\* authorship effects with from < to inside a document of the given length
ValidClaims(length) == {effect \in Claims(length) : effect.from < effect.to}

\* sequences of one to MaxEffects effects
EffectSeqs(effects) ==
    UNION {[1..n -> effects] : n \in 1..MaxEffects}

\* a transaction that changes the document and carries authorship effects,
\* their positions given in the changed document
DispatchTransaction ==
    /\ transaction = NoTransaction
    /\ \E changes \in Changes(docLength) :
        /\ ValidChange(changes, docLength)
        /\ \E effects \in EffectSeqs(ValidClaims(NewLength(changes, docLength))) :
            Dispatch([changes |-> changes, effects |-> effects])

\* a transaction merged from a specification with an authorship effect and a
\* later one with changes: the editor maps the effect through the changes
\* with authorshipsUpdateEffect.map; unmapped records the effect as it was
DispatchMappedEffect ==
    /\ transaction = NoTransaction
    /\ \E changes \in Changes(docLength), effect \in ValidClaims(docLength) :
        /\ ValidChange(changes, docLength)
        /\ Dispatch([changes |-> changes,
                     effects |-> <<MapEffect(effect, changes)>>,
                     unmapped |-> effect])

NextTransaction ==
    \/ DispatchTransaction
    \/ DispatchMappedEffect
    \/ EndTransaction

SpecTransaction == Init /\ [][NextTransaction]_vars

(* ------------------------------------------------- what a state records *)

\* number of entries of a set equal to the range r
Count(set, r) == Cardinality({i \in 1..Len(set) : set[i] = r})

\* every range with positions inside the longest document
AllRanges ==
    {MarkRange(from, to, userId) :
        from \in 0..MaxDocLen, to \in 0..MaxDocLen, userId \in Users}

\* two ranges share a position of [from, to)
Overlap(r1, r2) == r1.from < r2.to /\ r2.from < r1.to

\* position p lies in [r.from, r.to)
Covers(r, p) == r.from <= p /\ p < r.to

PairwiseDisjoint(set) ==
    \A i \in 1..Len(set) : \A j \in 1..Len(set) :
        i # j => ~Overlap(set[i], set[j])

\* the last transaction was ApplyOwnershipClaim: one authorship effect
AfterClaim == Len(FilterEffects(transaction.effects)) = 1

\* the effect of that transaction
Claim == FilterEffects(transaction.effects)[1]

ClaimRange == MarkRange(Claim.from, Claim.to, Claim.userId)

\* the last transaction was ApplyDocumentChange: no authorship effect
AfterDocumentChange ==
    /\ transaction # NoTransaction
    /\ Len(FilterEffects(transaction.effects)) = 0

\* r and the claim fall into the split case of the reconciliation: r reaches
\* into the claim span, is not adjacent to it, has another owner and shares
\* no boundary with it
InSplitCase(r, effect) ==
    /\ r.to >= effect.from /\ r.from <= effect.to
    /\ r.from # effect.to /\ r.to # effect.from
    /\ r.userId # effect.userId
    /\ r.from # effect.from /\ r.to # effect.to

\* r is adjacent to the claim span
Touching(r, effect) == r.to = effect.from \/ r.from = effect.to

(* ------------------------------------------------------------------ C1 *)

\* C1: in every reachable state the stored intervals are pairwise
\* non-overlapping: no two distinct entries share a position, whatever their
\* owners, two entries with the same span and owner included.
InvNoOverlap == PairwiseDisjoint(authorshipDecorations)

(* ------------------------------------------------------------------ C2 *)

\* C2: in every reachable state every stored interval has start < end;
\* neither a split nor a remap stores an empty or inverted interval.
InvNonEmptyRanges ==
    \A i \in 1..Len(authorshipDecorations) :
        authorshipDecorations[i].from < authorshipDecorations[i].to

\* a claim has split an interval into left remainder, middle and right
\* remainder
WitnessNonEmptyRanges ==
    /\ AfterClaim /\ ~threw
    /\ Len(authorshipDecorations) = Len(previousDecorations) + 2

(* ------------------------------------------------------------------ C3 *)

\* C3: in every reachable state no document position is covered by two
\* stored intervals that have different owners.
InvOneOwnerPerPosition ==
    \A i \in 1..Len(authorshipDecorations) :
        \A j \in 1..Len(authorshipDecorations) :
            authorshipDecorations[i].userId # authorshipDecorations[j].userId
                => ~Overlap(authorshipDecorations[i], authorshipDecorations[j])

(* ------------------------------------------------------------------ C4 *)

\* C4: idempotence of claims: applying the claim of the last transaction
\* once more, with no document change in between, yields exactly the
\* partition the first application gave (same entries, same number).
InvClaimIdempotent ==
    (AfterClaim /\ ~threw /\ Claim.from < Claim.to)
        => LET again == Update(authorshipDecorations, transaction)
           IN  ~again.threw /\ again.value = authorshipDecorations

(* ------------------------------------------------------------------ C5 *)

\* C5: most recent claim wins: after a claim with from < to on a pairwise
\* disjoint partition every position of [from, to) is covered by an
\* interval of the claim's owner and by no interval of another owner.
InvMostRecentClaimWins ==
    (AfterClaim /\ ~threw /\ Claim.from < Claim.to
        /\ PairwiseDisjoint(previousDecorations))
        => \A p \in Claim.from..(Claim.to - 1) :
            /\ \E i \in 1..Len(authorshipDecorations) :
                /\ Covers(authorshipDecorations[i], p)
                /\ authorshipDecorations[i].userId = Claim.userId
            /\ \A i \in 1..Len(authorshipDecorations) :
                Covers(authorshipDecorations[i], p)
                    => authorshipDecorations[i].userId = Claim.userId

(* ------------------------------------------------------------------ C6 *)

\* C6: touching-boundary rule: an interval adjacent to the claim span
\* (eTo = from or eFrom = to) is in the partition after the claim with the
\* same start, end and owner, as often as before, whatever its owner.
InvTouchingKept ==
    AfterClaim
        => \A i \in 1..Len(previousDecorations) :
            Touching(previousDecorations[i], Claim)
                => Count(authorshipDecorations, previousDecorations[i])
                    >= Count(previousDecorations, previousDecorations[i])

\* a claim was integrated next to an interval of another owner
WitnessTouchingKept ==
    /\ AfterClaim /\ ~threw
    /\ \E i \in 1..Len(previousDecorations) :
        /\ Touching(previousDecorations[i], Claim)
        /\ previousDecorations[i].userId # Claim.userId
        /\ previousDecorations[i].from # Claim.from
        /\ previousDecorations[i].to # Claim.to

(* ------------------------------------------------------------------ C7 *)

\* the partition before the claim with one entry e replaced by the three
\* pieces of the middle split
MiddleSplitOf(set, e, effect) ==
    [r \in AllRanges |->
        Count(set, r)
        - (IF r = e THEN 1 ELSE 0)
        + (IF r = MarkRange(e.from, effect.from, e.userId) THEN 1 ELSE 0)
        + (IF r = MarkRange(effect.from, effect.to, effect.userId) THEN 1 ELSE 0)
        + (IF r = MarkRange(effect.to, e.to, e.userId) THEN 1 ELSE 0)]

\* C7: middle split: when the partition holds E with eFrom < from < to < eTo
\* and another owner than the claim, the claim replaces E by exactly
\* [eFrom, from) of E's owner, [from, to) of the claim's owner and
\* [to, eTo) of E's owner.
InvMiddleSplit ==
    AfterClaim
        => \A i \in 1..Len(previousDecorations) :
            LET e == previousDecorations[i]
            IN  (e.from < Claim.from /\ Claim.from < Claim.to /\ Claim.to < e.to
                    /\ e.userId # Claim.userId)
                => /\ ~threw
                   /\ Len(authorshipDecorations) = Len(previousDecorations) + 2
                   /\ \A r \in AllRanges :
                        Count(authorshipDecorations, r)
                            = MiddleSplitOf(previousDecorations, e, Claim)[r]

(* ------------------------------------------------------------------ C8 *)

CountMappedTo(set, changes, r) ==
    Cardinality({i \in 1..Len(set) :
        /\ MapPos(changes, set[i].from, 1) = r.from
        /\ MapPos(changes, set[i].to, -1) = r.to
        /\ set[i].userId = r.userId})

\* C9: after a document change the partition is exactly the old intervals
\* with start and end remapped and owner unchanged, minus the intervals
\* whose remapped start >= remapped end; nothing is added, and a transaction
\* without an ownership claim changes the partition in no other way.
InvDocumentChangeRemaps ==
    AfterDocumentChange
        => /\ ~threw
           /\ Len(authorshipDecorations) <= Len(previousDecorations)
           /\ \A r \in AllRanges :
                Count(authorshipDecorations, r)
                    = IF r.from < r.to
                      THEN CountMappedTo(previousDecorations, transaction.changes, r)
                      ELSE 0

\* a deletion inside an interval has shortened it, and another interval,
\* whose whole span was deleted, is gone
WitnessDocumentChangeRemaps ==
    /\ AfterDocumentChange
    /\ transaction.changes.from < transaction.changes.to
    /\ \E i \in 1..Len(previousDecorations) :
        LET e == previousDecorations[i]
        IN  /\ e.from < transaction.changes.from
            /\ transaction.changes.from < e.to
            /\ Count(authorshipDecorations,
                     MarkRange(e.from, MapPos(transaction.changes, e.to, -1), e.userId)) > 0
            /\ MapPos(transaction.changes, e.to, -1) < e.to
    /\ Len(authorshipDecorations) < Len(previousDecorations)

(* ----------------------------------------------------------------- C10 *)

\* C10: an invalid claim is rejected: a claim with from >= to is never
\* stored and leaves the partition exactly as it was.
InvInvalidClaimRejected ==
    (AfterClaim /\ Claim.from >= Claim.to)
        => /\ threw
           /\ authorshipDecorations = previousDecorations

\* an invalid claim reached into an interval of another owner and was
\* rejected
WitnessInvalidClaimRejected ==
    /\ AfterClaim /\ Claim.from >= Claim.to /\ threw
    /\ \E i \in 1..Len(previousDecorations) :
        /\ previousDecorations[i].from < Claim.to
        /\ Claim.from < previousDecorations[i].to
        /\ previousDecorations[i].userId # Claim.userId

(* ----------------------------------------------------------------- C11 *)

\* C11: totality of claims: on a pairwise disjoint partition of non-empty
\* intervals every claim with from < to completes without an error, also
\* when an interval of another owner overlaps the claim partially or lies
\* strictly inside it.
InvClaimTotal ==
    (AfterClaim /\ Claim.from < Claim.to
        /\ PairwiseDisjoint(previousDecorations)
        /\ \A i \in 1..Len(previousDecorations) :
            previousDecorations[i].from < previousDecorations[i].to)
        => ~threw

(* ----------------------------------------------------------------- C12 *)

\* r shares a boundary with the claim, has another owner and is not merely
\* adjacent to it
SameBoundary(r, effect) ==
    /\ r.from = effect.from \/ r.to = effect.to
    /\ r.userId # effect.userId
    /\ ~Touching(r, effect)

RECURSIVE ClaimsOneByOne(_, _)
ClaimsOneByOne(set, effects) ==
    IF effects = <<>> THEN [threw |-> FALSE, value |-> set]
    ELSE LET first == Update(set, [changes |-> NoChange, effects |-> <<Head(effects)>>])
         IN  IF first.threw THEN [threw |-> TRUE, value |-> set]
             ELSE ClaimsOneByOne(first.value, Tail(effects))

\* the document change of the last transaction applied alone, then its
\* claims one by one in the order of the transaction
ChangeThenClaims ==
    ClaimsOneByOne(
        Update(previousDecorations,
               [changes |-> transaction.changes, effects |-> <<>>]).value,
        FilterEffects(transaction.effects))

\* C13: ordering inside one transaction: the document change is applied to
\* every stored interval before any claim of the transaction is integrated,
\* and the claims are integrated in the order they were delivered, each one
\* reading the partition written by the one before.
InvChangeBeforeClaimsInOrder ==
    transaction # NoTransaction
        => /\ threw = ChangeThenClaims.threw
           /\ ~threw => authorshipDecorations = ChangeThenClaims.value

\* a transaction with a document change and two claims for which both
\* orders can be told from the result: the claims in the other order, or the
\* claims integrated before the change, do not give the partition reached
WitnessChangeBeforeClaimsInOrder ==
    /\ transaction # NoTransaction /\ ~threw
    /\ Len(transaction.effects) = 2
    /\ transaction.changes # NoChange
    /\ LET swapped == ClaimsOneByOne(
                        MapDecorations(previousDecorations, transaction.changes),
                        <<transaction.effects[2], transaction.effects[1]>>)
       IN  swapped.threw \/ swapped.value # authorshipDecorations
    /\ LET claimsFirst == ClaimsOneByOne(previousDecorations, transaction.effects)
       IN  \/ claimsFirst.threw
           \/ MapDecorations(claimsFirst.value, transaction.changes)
                # authorshipDecorations

(* ----------------------------------------------------------------- C14 *)

\* r overlaps the claim without a shared boundary and reaches beyond it on
\* one side at most: the claim needs fewer than two remainders of r
PartialOverlap(r, effect) ==
    /\ r.from < effect.to /\ effect.from < r.to
    /\ r.from # effect.from /\ r.to # effect.to
    /\ ~(r.from < effect.from /\ effect.to < r.to)

\* C14: conditional remainders: an interval E of another owner that overlaps
\* the claim with no shared boundary is replaced by the left remainder
\* [eFrom, from) only if eFrom < from, the claim [from, to) and the right
\* remainder [to, eTo) only if to < eTo; for a partial overlap or an E
\* strictly inside the claim no empty remainder is built.
InvConditionalRemainders ==
    (AfterClaim /\ Claim.from < Claim.to /\ Len(previousDecorations) = 1)
        => LET e == previousDecorations[1]
           IN  (PartialOverlap(e, Claim) /\ e.userId # Claim.userId)
                => /\ ~threw
                   /\ Count(authorshipDecorations, e) = 0
                   /\ Count(authorshipDecorations, ClaimRange) = 1
                   /\ Count(authorshipDecorations,
                            MarkRange(e.from, Claim.from, e.userId))
                        = (IF e.from < Claim.from THEN 1 ELSE 0)
                   /\ Count(authorshipDecorations,
                            MarkRange(Claim.to, e.to, e.userId))
                        = (IF Claim.to < e.to THEN 1 ELSE 0)
                   /\ Len(authorshipDecorations)
                        = 1 + (IF e.from < Claim.from THEN 1 ELSE 0)
                            + (IF Claim.to < e.to THEN 1 ELSE 0)

(* ----------------------------------------------------------------- C15 *)

\* C15: the claim is materialized exactly once: a claim with from < to for
\* which at least one interval falls into the split case adds exactly one
\* entry [from, to, ownerId), also when two or more intervals are split.
InvClaimMaterializedOnce ==
    (AfterClaim /\ Claim.from < Claim.to
        /\ \E i \in 1..Len(previousDecorations) :
            InSplitCase(previousDecorations[i], Claim))
        => /\ ~threw
           /\ Count(authorshipDecorations, ClaimRange)
                = Count(previousDecorations, ClaimRange) + 1

(* ----------------------------------------------------------------- C16 *)

\* r neither overlaps nor touches the claim span
Outside(r, effect) == r.to < effect.from \/ effect.to < r.from

\* the entries of a set that are not outside the claim span
RECURSIVE NotOutside(_, _)
NotOutside(set, effect) ==
    IF set = <<>> THEN <<>>
    ELSE IF Outside(Head(set), effect) THEN NotOutside(Tail(set), effect)
    ELSE <<Head(set)>> \o NotOutside(Tail(set), effect)

\* C16: frame of a claim on intervals: an interval that neither overlaps nor
\* touches the claim span is not visited by the reconciliation (the claim
\* fails or succeeds as it would without that interval) and is present
\* after the claim with the same start, end and owner.
InvOutsideUntouched ==
    (AfterClaim /\ Claim.from < Claim.to)
        => /\ \A i \in 1..Len(previousDecorations) :
                Outside(previousDecorations[i], Claim)
                    => Count(authorshipDecorations, previousDecorations[i])
                        = Count(previousDecorations, previousDecorations[i])
           /\ threw = ApplyEffect(NotOutside(previousDecorations, Claim), Claim).threw

\* a claim was integrated while an interval of another owner lay outside
\* its span
WitnessOutsideUntouched ==
    /\ AfterClaim /\ ~threw /\ Claim.from < Claim.to
    /\ \E i \in 1..Len(previousDecorations) :
        /\ Outside(previousDecorations[i], Claim)
        /\ previousDecorations[i].userId # Claim.userId
    /\ Len(authorshipDecorations) > Len(previousDecorations)

(* ----------------------------------------------------------------- C17 *)

\* the owners whose intervals cover position p
OwnersAt(set, p) == {set[i].userId : i \in {j \in 1..Len(set) : Covers(set[j], p)}}

\* C17: frame of a claim on positions: every position outside [from, to) is
\* covered after the claim by exactly the owners that covered it before,
\* also when the claim splits an interval that extends beyond its span.
InvOutsidePositionsKeepOwners ==
    (AfterClaim /\ Claim.from < Claim.to)
        => \A p \in 0..MaxDocLen :
            ~(Claim.from <= p /\ p < Claim.to)
                => OwnersAt(authorshipDecorations, p) = OwnersAt(previousDecorations, p)

\* a claim has split an interval of another owner that extends beyond the
\* claim span on both sides
WitnessOutsidePositionsKeepOwners ==
    /\ AfterClaim /\ ~threw /\ Claim.from < Claim.to
    /\ PairwiseDisjoint(previousDecorations)
    /\ \E i \in 1..Len(previousDecorations) :
        /\ previousDecorations[i].from < Claim.from
        /\ Claim.to < previousDecorations[i].to
        /\ previousDecorations[i].userId # Claim.userId
        /\ Count(authorshipDecorations, previousDecorations[i]) = 0

(* ----------------------------------------------------------------- C18 *)

\* the last transaction carries an effect that was mapped through its changes
AfterMappedEffect ==
    /\ transaction # NoTransaction
    /\ "unmapped" \in DOMAIN transaction

\* C18: claim remapping keeps claims valid: a claim with from < to mapped
\* through a document change has from and to remapped, the same user id, and
\* still from < to, also when the change deletes the whole claimed span.
InvMappedClaimValid ==
    AfterMappedEffect
        => LET mapped == transaction.effects[1]
           IN  /\ mapped.from = MapPos(transaction.changes, transaction.unmapped.from, -1)
               /\ mapped.to = MapPos(transaction.changes, transaction.unmapped.to, -1)
               /\ mapped.userId = transaction.unmapped.userId
               /\ mapped.from < mapped.to

====
